---- MODULE Spec2Model ----
(***************************************************************************)
(* Model of youtube_music_metadata: the downloader adapter, the metadata   *)
(* fetcher with its JSON repair, the tag writers (MP4, Opus, ID3 cover)    *)
(* and the command-line dispatch of scripts/download_youtube_audio.py.     *)
(***************************************************************************)
EXTENDS Integers, Sequences, FiniteSets, TLC

VARIABLES
    path,     \* the media file the run works on (its name decides its container)
    disk,     \* the tag container of that file as stored on disk
    scratch,  \* content of the scratch file cover.jpg in the working directory
    last,     \* what the last finished call did: arguments, outcome, effects
    before,   \* disk as it was when the last call started
    inp,      \* the inputs of the pending call (downloader output, arguments)
    pc,       \* "call": the pending call has not run; "done": it has; "idle"
    inv,      \* the invocations that run statement by statement: position, locals
    files,    \* the tag containers of the media files those invocations work on
    overlap   \* set_cover was entered while another set_cover had not ended

vars == <<path, disk, scratch, last, before, inp, pc, inv, files, overlap>>

\* ------------------------------------------------------------------ bounds

\* Exit codes of the external downloader range over 0..MaxExitCode.
MaxExitCode == 2
\* The downloader's standard output is a concatenation of at most MaxChunks chunks.
MaxChunks == 3
\* A media file starts with at most MaxPics embedded pictures.
MaxPics == 2

ExitCodes == 0..MaxExitCode
Urls == {"https://youtu.be/v1", "https://youtu.be/v2"}

\* ---------------------------------------------------------- metadata values

Fields == {"title", "channel", "upload_date", "webpage_url", "description", "thumbnail"}

\* The order in which the downloader emits the fields of one object.
FieldOrder == <<"title", "channel", "upload_date", "webpage_url", "description", "thumbnail">>

Variants == {1, 2}

\* The value of field f in the v-th video of the model.
Val(f, v) ==
    CASE f = "title"       -> IF v = 1 THEN "Song A" ELSE "Song B"
      [] f = "channel"     -> IF v = 1 THEN "Artist X" ELSE "Artist Y"
      [] f = "upload_date" -> IF v = 1 THEN "20230115" ELSE "20240229"
      [] f = "webpage_url" -> IF v = 1 THEN "https://example.com/v" ELSE "https://example.com/w"
      [] f = "description" -> IF v = 1 THEN "desc" ELSE "other desc"
      [] f = "thumbnail"   -> IF v = 1 THEN "https://example.com/cover.jpg"
                                       ELSE "https://example.com/cover.png"

\* A metadata record is a function from the fields it has to strings.
FullMeta(v) == [f \in Fields |-> Val(f, v)]
Without(m, f) == [g \in (DOMAIN m) \ {f} |-> m[g]]
FullMetas == {FullMeta(v) : v \in Variants}
MetaRecords == FullMetas \cup {Without(FullMeta(1), f) : f \in Fields}

\* ------------------------------------------------------- JSON values (json)

\* What json.loads returns: a dict (d), a list (l) or a number.
EmptyDict == [f \in {} |-> ""]
JDict(d) == [t |-> "dict", d |-> d, l |-> <<>>]
JList(l) == [t |-> "list", d |-> EmptyDict, l |-> l]
JNum     == [t |-> "num",  d |-> EmptyDict, l |-> <<>>]
JNone    == [t |-> "none", d |-> EmptyDict, l |-> <<>>]

\* ------------------------------------------------- bytes of standard output

\* The bytes are kept as tokens.  A member token is the text "key":"value" of
\* one object member; it holds no raw newline (JSON strings escape it), so
\* no occurrence of the byte patterns of the repair crosses or enters a token.
Tok(k) == [k |-> k, key |-> "", val |-> ""]
LB  == Tok("{")
RB  == Tok("}")
LBK == Tok("[")
RBK == Tok("]")
CM  == Tok(",")
NL  == Tok("\n")
SP  == Tok(" ")
NUM == Tok("1")
X80 == Tok("x80")      \* a byte that is not valid UTF-8
Member(f, v) == [k |-> "member", key |-> f, val |-> v]

IsWs(tk) == tk.k \in {"\n", " "}

RECURSIVE Members(_, _)
\* The members of record m in emission order from position i on, comma separated.
Members(m, i) ==
    IF i > Len(FieldOrder) THEN <<>>
    ELSE LET f == FieldOrder[i]
             rest == Members(m, i + 1)
         IN IF f \notin DOMAIN m THEN rest
            ELSE IF rest = <<>> THEN <<Member(f, m[f])>>
            ELSE <<Member(f, m[f]), CM>> \o rest

\* json.dumps of one record on one line, as the downloader prints it.
Dump(m) == <<LB>> \o Members(m, 1) \o <<RB>>

\* ------------------------------------------------------------ json.loads

RECURSIVE SkipWs(_, _)
\* The first position from i on that holds no JSON whitespace (Len(s)+1 if none).
SkipWs(s, i) == IF i <= Len(s) /\ IsWs(s[i]) THEN SkipWs(s, i + 1) ELSE i

\* The dict d with key k set to v: a repeated key keeps its last value.
Put(d, k, v) == [x \in (DOMAIN d) \cup {k} |-> IF x = k THEN v ELSE d[x]]

ParseFail == [ok |-> FALSE, next |-> 0, v |-> JNone]
ParseOk(n, v) == [ok |-> TRUE, next |-> n, v |-> v]

RECURSIVE ParseValue(_, _), ParseMembers(_, _, _), ParseItems(_, _, _)

\* One JSON value starting at position i (no whitespace at i).
ParseValue(s, i) ==
    IF i > Len(s) THEN ParseFail
    ELSE IF s[i].k = "{" THEN
        LET j == SkipWs(s, i + 1)
        IN IF j <= Len(s) /\ s[j].k = "}" THEN ParseOk(j + 1, JDict(EmptyDict))
           ELSE ParseMembers(s, j, EmptyDict)
    ELSE IF s[i].k = "[" THEN
        LET j == SkipWs(s, i + 1)
        IN IF j <= Len(s) /\ s[j].k = "]" THEN ParseOk(j + 1, JList(<<>>))
           ELSE ParseItems(s, j, <<>>)
    ELSE IF s[i].k = "1" THEN ParseOk(i + 1, JNum)
    ELSE ParseFail

\* The members of an object from position i on, d being those read so far.
ParseMembers(s, i, d) ==
    IF i > Len(s) \/ s[i].k # "member" THEN ParseFail
    ELSE LET d2 == Put(d, s[i].key, s[i].val)
             j == SkipWs(s, i + 1)
         IN IF j > Len(s) THEN ParseFail
            ELSE IF s[j].k = "}" THEN ParseOk(j + 1, JDict(d2))
            ELSE IF s[j].k = "," THEN ParseMembers(s, SkipWs(s, j + 1), d2)
            ELSE ParseFail

\* The items of an array from position i on, l being those read so far.
ParseItems(s, i, l) ==
    LET r == ParseValue(s, i)
    IN IF ~r.ok THEN ParseFail
       ELSE LET l2 == Append(l, r.v)
                j == SkipWs(s, r.next)
            IN IF j > Len(s) THEN ParseFail
               ELSE IF s[j].k = "]" THEN ParseOk(j + 1, JList(l2))
               ELSE IF s[j].k = "," THEN ParseItems(s, SkipWs(s, j + 1), l2)
               ELSE ParseFail

\* json.loads(bytes): decode as UTF-8, then one value between optional
\* whitespace and nothing after it.  exc is "" when a value is returned.
loads(s) ==
    IF \E i \in 1..Len(s) : s[i].k = "x80"
    THEN [exc |-> "UnicodeDecodeError", v |-> JNone]
    ELSE LET r == ParseValue(s, SkipWs(s, 1))
         IN IF r.ok /\ SkipWs(s, r.next) = Len(s) + 1
            THEN [exc |-> "", v |-> r.v]
            ELSE [exc |-> "JSONDecodeError", v |-> JNone]

\* ---------------------------------------------------------- bytes.replace

\* Whether pattern pat occurs in s at position i.
MatchAt(s, i, pat) ==
    /\ i + Len(pat) - 1 <= Len(s)
    /\ \A k \in 1..Len(pat) : s[i + k - 1] = pat[k]

RECURSIVE ReplaceFrom(_, _, _, _)
ReplaceFrom(s, i, pat, rep) ==
    IF i > Len(s) THEN <<>>
    ELSE IF MatchAt(s, i, pat) THEN rep \o ReplaceFrom(s, i + Len(pat), pat, rep)
    ELSE <<s[i]>> \o ReplaceFrom(s, i + 1, pat, rep)

\* s.replace(pat, rep): every non-overlapping occurrence, left to right.
Replace(s, pat, rep) == ReplaceFrom(s, 1, pat, rep)

\* The repair of a one-object-per-line stream into the text of a JSON array.
RepairNoComma(stdout) ==
    <<LBK>> \o Replace(Replace(stdout, <<RB, NL, LB>>, <<RB, LB>>), <<RB, NL>>, <<RB>>) \o <<RBK>>

Repair(stdout) ==
    <<LBK>> \o Replace(Replace(stdout, <<RB, NL, LB>>, <<RB, CM, LB>>), <<RB, NL>>, <<RB>>) \o <<RBK>>

\* ------------------------------------------------------- downloader output

\* One line of the downloader's --dump-json output: an object and a newline.
Line(v) == Dump(FullMeta(v)) \o <<NL>>

Chunks ==
    {Line(1), Line(2), Dump(FullMeta(1)), <<LB, RB, NL>>,
     <<LB>>, <<RB>>, <<LBK>>, <<RBK>>, <<CM>>, <<NL>>, <<SP>>, <<X80>>}

RECURSIVE ChunkSeqs(_)
\* The byte strings made of at most n chunks.
ChunkSeqs(n) ==
    IF n = 0 THEN {<<>>}
    ELSE LET shorter == ChunkSeqs(n - 1)
         IN shorter \cup {s \o c : s \in shorter, c \in Chunks}

Stdouts == ChunkSeqs(MaxChunks)

\* ------------------------------------------------------------- call records

Returned == [kind |-> "return", exc |-> "", url |-> "", code |-> -1]
\* An exception of class exc whose message carries url and code ("" and -1: not carried).
Raised(exc, url, code) == [kind |-> "raise", exc |-> exc, url |-> url, code |-> code]

\* The record of a call: its arguments, its outcome and what it did on the way.
NoCall ==
    [op      |-> "none",   \* the function called
     url     |-> "",       \* its url argument
     meta    |-> JNone,    \* its file_metadata argument
     out     |-> Returned, \* how it ended
     value   |-> JNone,    \* the value it returned
     printed |-> "",       \* what it printed about the file format
     runs    |-> 0,        \* subprocess.run calls (downloader invocations)
     loads   |-> 0,        \* json.loads calls
     gets    |-> 0,        \* requests.get calls
     http    |-> "",       \* how the GET ended: "2xx", "404", "transport"
     body    |-> "",       \* the response body of the GET
     opens   |-> 0,        \* tag-library opens of the media file
     saves   |-> 0,        \* tag-library saves to the media file
     writes  |-> 0,        \* writes of the scratch file
     rep     |-> 0]        \* how many times in a row this same call has returned

\* ------------------------------------------- utilities.py: downloader calls

\* download_audio_with_metadata(url, file_path) with the downloader exiting rc.
download_audio_with_metadata(url, rc) ==
    [NoCall EXCEPT !.op = "download_audio_with_metadata", !.url = url, !.runs = 1,
                   !.out = IF rc = 0 THEN Returned ELSE Raised("Exception", url, rc)]

\* download_thumbnail(url, file_path) with the downloader exiting rc.
download_thumbnail(url, rc) ==
    [NoCall EXCEPT !.op = "download_thumbnail", !.url = url, !.runs = 1,
                   !.out = IF rc = 0 THEN Returned ELSE Raised("Exception", url, rc)]

\* fetch_metadata that reports a failed downloader run and returns the empty dict.
fetch_metadata_logged(url, rc, stdout) ==
    LET call == [NoCall EXCEPT !.op = "fetch_metadata", !.url = url, !.runs = 1]
    IN IF rc = 0 THEN
           LET first == loads(stdout)
           IN IF first.exc = "" THEN
                  [call EXCEPT !.loads = 1, !.value = first.v]
              ELSE IF first.exc = "JSONDecodeError" THEN
                  LET second == loads(Repair(stdout))
                  IN IF second.exc = "" THEN
                         [call EXCEPT !.loads = 2, !.value = second.v]
                     ELSE [call EXCEPT !.loads = 2, !.out = Raised(second.exc, "", -1)]
              ELSE [call EXCEPT !.loads = 1, !.out = Raised("Exception", url, -1)]
       ELSE [call EXCEPT !.value = JDict(EmptyDict)]

\* fetch_metadata(url) with the downloader exiting rc after writing stdout.
fetch_metadata(url, rc, stdout) ==
    LET call == [NoCall EXCEPT !.op = "fetch_metadata", !.url = url, !.runs = 1]
    IN IF rc = 0 THEN
           LET first == loads(stdout)
           IN IF first.exc = "" THEN
                  [call EXCEPT !.loads = 1, !.value = first.v]
              ELSE IF first.exc = "JSONDecodeError" THEN
                  \* the handler's own json.loads: what it raises leaves the function
                  LET second == loads(Repair(stdout))
                  IN IF second.exc = "" THEN
                         [call EXCEPT !.loads = 2, !.value = second.v]
                     ELSE [call EXCEPT !.loads = 2, !.out = Raised(second.exc, "", -1)]
              ELSE [call EXCEPT !.loads = 1, !.out = Raised("Exception", url, -1)]
       ELSE [call EXCEPT !.out = Raised("Exception", url, rc)]

\* ------------------------------------------------------------- media files

Paths == {"track.m4a", "TRACK.M4A", "track.opus", "track.mp3", "track.flac", "track.wav"}

\* file_path.suffix.lower()
SuffixLower(p) ==
    CASE p \in {"track.m4a", "TRACK.M4A"} -> ".m4a"
      [] p = "track.opus" -> ".opus"
      [] p = "track.mp3"  -> ".mp3"
      [] p = "track.flac" -> ".flac"
      [] p = "track.wav"  -> ".wav"

\* file_path.as_posix().endswith(".mp3")
EndsWithMp3(p) == p = "track.mp3"

\* What the file really is: the tag library refuses a file of another kind.
Container(p) ==
    CASE p \in {"track.m4a", "TRACK.M4A"} -> "mp4"
      [] p = "track.opus" -> "ogg"
      [] p = "track.mp3"  -> "id3"
      [] p = "track.flac" -> "flac"
      [] p = "track.wav"  -> "wav"

\* cover.endswith('.jpg') or cover.endswith('.jpeg')
EndsWithJpg(cover) == cover = "https://example.com/cover.jpg"

Absent == "<absent>"

\* The text tags of a container: the five the writers set, and the album.
Keys(c) ==
    CASE c = "mp4" -> {"xa9nam", "xa9ART", "xa9day", "xa9cmt", "desc", "xa9alb"}
      [] c = "ogg" -> {"TITLE", "ARTIST", "DATE", "COMMENT", "DESCRIPTION", "ALBUM"}
      [] c = "id3" -> {"TIT2", "TPE1", "TDRC", "COMM", "TALB"}
      [] OTHER     -> {}

\* An embedded picture: its description (the ID3 frame key), format and bytes.
Pic(desc, fmt, data) == [desc |-> desc, fmt |-> fmt, data |-> data]

\* The k-th picture a file of container c may hold before the first call.
OldPic(c, k) ==
    Pic(IF c = "mp4" THEN "covr"
        ELSE CASE k = 1 -> "Front" [] k = 2 -> "Cover" [] k = 3 -> "Back" [] OTHER -> "Other",
        "jpeg",
        CASE k = 1 -> "P0" [] k = 2 -> "P1" [] k = 3 -> "P2" [] OTHER -> "P3")

\* A file without a tag section (MP4 without ilst, MP3 without ID3 header).
Untagged(c) == [tagged |-> FALSE, text |-> [k \in Keys(c) |-> Absent], pics |-> <<>>]

InitDisks(p) ==
    LET c == Container(p)
    IN {[tagged |-> TRUE, text |-> [k \in Keys(c) |-> "old"], pics |-> [k \in 1..n |-> OldPic(c, k)]]
            : n \in 0..MaxPics}
       \cup (IF c \in {"mp4", "id3"} THEN {Untagged(c)} ELSE {})

\* ------------------------------------------------------------ HTTP answers

\* How one GET of a thumbnail URL can end.
Responses ==
    {[http |-> "2xx", body |-> b] : b \in {"B1", "B2"}}
    \cup {[http |-> "404", body |-> "E404"], [http |-> "transport", body |-> ""]}

\* ------------------------------------------------- mutagen: tags in memory

\* FileType.__setitem__: creates the tag section in memory when the file has none.
SetItem(mem, key, value) == [mem EXCEPT !.tagged = TRUE, !.text[key] = value]

\* A save that adds the pictures in memory to those on disk.
Mp4SaveAppend(d, mem) == IF mem.tagged THEN [mem EXCEPT !.pics = d.pics \o mem.pics] ELSE d

\* MP4Tags.save: the file's ilst atom is replaced by the tags held in memory.
Mp4Save(d, mem) == IF mem.tagged THEN mem ELSE d

\* ID3.add: the frame takes the place of the frame with the same key, if any.
AddFrame(pics, pic) ==
    SelectSeq(pics, LAMBDA q : q.desc # pic.desc) \o <<pic>>

\* ------------------------------------------------------ utilities.set_cover

\* set_cover(cover, file_path) on disk d and scratch sc, the GET ending as resp.
set_cover(d, sc, cover, p, resp) ==
    LET call == [NoCall EXCEPT !.op = "set_cover", !.url = cover, !.gets = 1,
                               !.http = resp.http]
        Fails(c, s, exc) == [disk |-> d, scratch |-> s, call |-> [c EXCEPT !.out = Raised(exc, "", -1)]]
    IN IF resp.http = "transport" THEN Fails(call, sc, "ConnectionError")
       ELSE
         \* r.content is written whatever the status is, and read back
         LET sc2  == resp.body
             got  == [call EXCEPT !.body = resp.body, !.writes = 1, !.opens = 1]
             data == sc2
         IN IF EndsWithMp3(p) THEN
                IF Container(p) # "id3" THEN Fails(got, sc2, "MutagenError")
                ELSE IF ~d.tagged THEN Fails(got, sc2, "AttributeError")
                ELSE [disk |-> [d EXCEPT !.pics = AddFrame(d.pics,
                                   Pic("Cover", IF EndsWithJpg(cover) THEN "jpeg" ELSE "png", data))],
                      scratch |-> sc2,
                      call |-> [got EXCEPT !.saves = 1]]
            ELSE
                IF Container(p) # "mp4" THEN Fails(got, sc2, "MutagenError")
                ELSE IF ~d.tagged THEN Fails(got, sc2, "TypeError")
                \* bytes(albumart) drops the format: the library then writes JPEG
                ELSE [disk |-> [d EXCEPT !.pics = <<Pic("covr", "jpeg", data)>>],
                      scratch |-> sc2,
                      call |-> [got EXCEPT !.saves = 1]]

\* --------------------------------------- utilities: the two text tag writers

\* The fields in the order set_m4a_metadata reads them from file_metadata.
M4aReads == <<"title", "channel", "upload_date", "webpage_url", "description", "thumbnail">>
\* The fields in the order set_opus_metadata reads them.
OpusReads == <<"title", "channel", "upload_date", "webpage_url", "description">>

\* file_metadata.get(f, ""): a missing field reads as the empty string.
SubscriptGet(meta, f) ==
    IF meta.t # "dict" THEN [exc |-> "TypeError", v |-> Absent]
    ELSE IF f \notin DOMAIN meta.d THEN [exc |-> "", v |-> ""]
    ELSE [exc |-> "", v |-> meta.d[f]]

\* file_metadata[f]: the value, or the exception the subscript raises.
Subscript(meta, f) ==
    IF meta.t # "dict" THEN [exc |-> "TypeError", v |-> Absent]
    ELSE IF f \notin DOMAIN meta.d THEN [exc |-> "KeyError", v |-> Absent]
    ELSE [exc |-> "", v |-> meta.d[f]]

RECURSIVE FirstError(_, _, _)
\* The first exception of the reads fs[i], fs[i+1], ... ("" when all succeed).
FirstError(meta, fs, i) ==
    IF i > Len(fs) THEN ""
    ELSE IF Subscript(meta, fs[i]).exc # "" THEN Subscript(meta, fs[i]).exc
    ELSE FirstError(meta, fs, i + 1)

\* upload_date[0:4]
Year(date) == CASE date = "20230115" -> "2023" [] date = "20240229" -> "2024" [] OTHER -> date

\* The five assignments with the date cut to its year.
Mp4AssignYear(mem, meta) ==
    SetItem(SetItem(SetItem(SetItem(SetItem(mem,
        "xa9nam", Subscript(meta, "title").v),
        "xa9ART", Subscript(meta, "channel").v),
        "xa9day", Year(Subscript(meta, "upload_date").v)),
        "xa9cmt", Subscript(meta, "webpage_url").v),
        "desc",   Subscript(meta, "description").v)

\* The five assignments of set_m4a_metadata to the tags in memory.
Mp4Assign(mem, meta) ==
    SetItem(SetItem(SetItem(SetItem(SetItem(mem,
        "xa9nam", Subscript(meta, "title").v),
        "xa9ART", Subscript(meta, "channel").v),
        "xa9day", Subscript(meta, "upload_date").v),
        "xa9cmt", Subscript(meta, "webpage_url").v),
        "desc",   Subscript(meta, "description").v)

\* The five assignments of set_opus_metadata to the tags in memory.
OpusAssign(mem, meta) ==
    SetItem(SetItem(SetItem(SetItem(SetItem(mem,
        "TITLE",       Subscript(meta, "title").v),
        "ARTIST",      Subscript(meta, "channel").v),
        "DATE",        Subscript(meta, "upload_date").v),
        "COMMENT",     Subscript(meta, "webpage_url").v),
        "DESCRIPTION", Subscript(meta, "description").v)

\* set_m4a_metadata(file_path, file_metadata) on disk d and scratch sc.
set_m4a_metadata(d, sc, p, meta, resp) ==
    LET call == [NoCall EXCEPT !.op = "set_m4a_metadata", !.meta = meta, !.opens = 1]
        err  == FirstError(meta, M4aReads, 1)
    IN IF Container(p) # "mp4" THEN
           [disk |-> d, scratch |-> sc, call |-> [call EXCEPT !.out = Raised("MutagenError", "", -1)]]
       ELSE IF err # "" THEN
           [disk |-> d, scratch |-> sc, call |-> [call EXCEPT !.out = Raised(err, "", -1)]]
       ELSE
           LET mem == Mp4Assign(d, meta)        \* tags: read at the open, changed in memory
               c   == set_cover(d, sc, Subscript(meta, "thumbnail").v, p, resp)
               sum == [call EXCEPT !.gets = c.call.gets, !.http = c.call.http,
                                   !.body = c.call.body, !.writes = c.call.writes,
                                   !.opens = 1 + c.call.opens, !.saves = c.call.saves]
           IN IF c.call.out.kind = "raise" THEN
                  [disk |-> c.disk, scratch |-> c.scratch, call |-> [sum EXCEPT !.out = c.call.out]]
              ELSE
                  [disk |-> Mp4Save(c.disk, mem), scratch |-> c.scratch,
                   call |-> [sum EXCEPT !.saves = 1 + c.call.saves]]

\* set_opus_metadata(file_path, file_metadata) on disk d.
set_opus_metadata(d, sc, p, meta) ==
    LET call == [NoCall EXCEPT !.op = "set_opus_metadata", !.meta = meta, !.opens = 1]
        err  == FirstError(meta, OpusReads, 1)
    IN IF Container(p) # "ogg" THEN
           [disk |-> d, scratch |-> sc, call |-> [call EXCEPT !.out = Raised("MutagenError", "", -1)]]
       ELSE IF err # "" THEN
           [disk |-> d, scratch |-> sc, call |-> [call EXCEPT !.out = Raised(err, "", -1)]]
       ELSE
           [disk |-> OpusAssign(d, meta), scratch |-> sc, call |-> [call EXCEPT !.saves = 1]]

\* ------------------------------------- scripts/download_youtube_audio.main

\* The parsed command line, with what the downloader and the GET will answer.
NoInput ==
    [op |-> "none", url |-> "", rc |-> 0, stdout |-> <<>>,
     metadata_only |-> FALSE, download_thumbnail |-> FALSE, set_m4a_metadata |-> FALSE,
     resp |-> [http |-> "2xx", body |-> "B1"]]

\* A dispatch with a single test: every file that is not .opus goes to the MP4 writer.
StrategyElseM4a(ext) == IF ext = ".opus" THEN "set_opus_metadata" ELSE "set_m4a_metadata"

\* The writer the if/elif/else on file_extension selects.
Strategy(ext) ==
    IF ext = ".m4a" THEN "set_m4a_metadata"
    ELSE IF ext = ".opus" THEN "set_opus_metadata"
    ELSE "unsupported"

\* main() from the dispatch on: args.set_m4a_metadata, when given, is path p.
main(d, sc, p, a) ==
    LET Only(c) == [disk |-> d, scratch |-> sc, call |-> [c EXCEPT !.op = "main"]]
        Both(f, r) == [disk |-> r.disk, scratch |-> r.scratch,
                       call |-> [r.call EXCEPT !.op = "main", !.url = f.url, !.runs = f.runs,
                                               !.loads = f.loads, !.value = f.value]]
    IN IF a.metadata_only THEN Only(fetch_metadata(a.url, a.rc, a.stdout))
       ELSE IF a.download_thumbnail THEN Only(download_thumbnail(a.url, a.rc))
       ELSE IF a.set_m4a_metadata THEN
           LET f == fetch_metadata(a.url, a.rc, a.stdout)
           IN IF f.out.kind = "raise" THEN Only(f)
              ELSE IF Strategy(SuffixLower(p)) = "set_m4a_metadata" THEN
                  Both(f, set_m4a_metadata(d, sc, p, f.value, a.resp))
              ELSE IF Strategy(SuffixLower(p)) = "set_opus_metadata" THEN
                  Both(f, set_opus_metadata(d, sc, p, f.value))
              ELSE Only([f EXCEPT !.printed = SuffixLower(p)])
       ELSE Only(download_audio_with_metadata(a.url, a.rc))

\* ------------------------------------------------------------------ inputs

\* The file_metadata arguments of the tag writers: records, and a playlist's list.
MetaArgs == {JDict(m) : m \in MetaRecords} \cup {JList(<<JDict(FullMeta(1))>>)}

CoverUrls == {Val("thumbnail", v) : v \in Variants}

\* What a downloader that exits non-zero may have printed before.
FailedStdouts == {<<>>, <<LB>>, Line(1), Line(1) \o Line(2)}

FetchInputs ==
    {[NoInput EXCEPT !.op = "fetch_metadata", !.url = u, !.stdout = out]
        : u \in Urls, out \in Stdouts}
    \cup {[NoInput EXCEPT !.op = "fetch_metadata", !.url = u, !.rc = rc, !.stdout = out]
        : u \in Urls, rc \in ExitCodes \ {0}, out \in FailedStdouts}
    \cup {[NoInput EXCEPT !.op = o, !.url = u, !.rc = rc]
        : o \in {"download_audio_with_metadata", "download_thumbnail"},
          u \in Urls, rc \in ExitCodes}

\* What the downloader prints in the runs of main: one video (with or without
\* some field), a playlist, nothing, a cut object.
MainStdouts ==
    {Dump(m) \o <<NL>> : m \in MetaRecords} \cup {Line(1) \o Line(2), <<>>, <<LB>>}

MainInputs ==
    {[op |-> "main", url |-> u, rc |-> rc, stdout |-> out,
      metadata_only |-> mo, download_thumbnail |-> dt, set_m4a_metadata |-> sm, resp |-> r]
        : u \in Urls, rc \in ExitCodes, out \in MainStdouts,
          mo \in BOOLEAN, dt \in BOOLEAN, sm \in BOOLEAN, r \in Responses}

\* ----------------------------------------------------------------- actions

\* The call record with its count of identical returned calls in a row.
Counted(call) ==
    [call EXCEPT !.rep =
        IF call.out.kind # "return" THEN 0
        ELSE IF /\ last.out.kind = "return" /\ last.op = call.op /\ last.meta = call.meta
                /\ last.url = call.url /\ last.body = call.body
             THEN (IF last.rep >= 2 THEN 2 ELSE last.rep + 1)
             ELSE 1]

\* A call's results become the next state.
Finish(r) ==
    /\ disk' = r.disk
    /\ scratch' = r.scratch
    /\ last' = Counted(r.call)
    /\ before' = disk
    /\ UNCHANGED <<inv, files, overlap>>

SetM4aMetadata ==
    /\ pc = "idle"
    /\ \E meta \in MetaArgs, resp \in Responses :
          Finish(set_m4a_metadata(disk, scratch, path, meta, resp))
    /\ UNCHANGED <<path, inp, pc>>

SetOpusMetadata ==
    /\ pc = "idle"
    /\ \E meta \in MetaArgs : Finish(set_opus_metadata(disk, scratch, path, meta))
    /\ UNCHANGED <<path, inp, pc>>

SetCover ==
    /\ pc = "idle"
    /\ \E cover \in CoverUrls, resp \in Responses :
          Finish(set_cover(disk, scratch, cover, path, resp))
    /\ UNCHANGED <<path, inp, pc>>

FetchMetadata ==
    /\ pc = "call" /\ inp.op = "fetch_metadata"
    /\ Finish([disk |-> disk, scratch |-> scratch,
               call |-> fetch_metadata(inp.url, inp.rc, inp.stdout)])
    /\ pc' = "done"
    /\ UNCHANGED <<path, inp>>

DownloadAudioWithMetadata ==
    /\ pc = "call" /\ inp.op = "download_audio_with_metadata"
    /\ Finish([disk |-> disk, scratch |-> scratch,
               call |-> download_audio_with_metadata(inp.url, inp.rc)])
    /\ pc' = "done"
    /\ UNCHANGED <<path, inp>>

DownloadThumbnail ==
    /\ pc = "call" /\ inp.op = "download_thumbnail"
    /\ Finish([disk |-> disk, scratch |-> scratch,
               call |-> download_thumbnail(inp.url, inp.rc)])
    /\ pc' = "done"
    /\ UNCHANGED <<path, inp>>

Main ==
    /\ pc = "call" /\ inp.op = "main"
    /\ Finish(main(disk, scratch, path, inp))
    /\ pc' = "done"
    /\ UNCHANGED <<path, inp>>

\* ---------------------------------------------------------- specifications

\* No invocation runs statement by statement.
NoSteps == inv = <<>> /\ files = <<>> /\ overlap = FALSE

InitFiles ==
    /\ path \in Paths
    /\ disk \in InitDisks(path)
    /\ scratch = Absent
    /\ last = NoCall
    /\ before = disk
    /\ NoSteps

\* The tag writers called any number of times on one media file.
InitTags == InitFiles /\ inp = NoInput /\ pc = "idle"
NextTags == SetM4aMetadata \/ SetOpusMetadata \/ SetCover
SpecTags == InitTags /\ [][NextTags]_vars

\* One call of a downloader function of utilities.py.
InitFetch ==
    /\ path = "track.m4a"
    /\ disk = Untagged("mp4")
    /\ scratch = Absent
    /\ last = NoCall
    /\ before = disk
    /\ inp \in FetchInputs
    /\ pc = "call"
    /\ NoSteps
NextFetch == FetchMetadata \/ DownloadAudioWithMetadata \/ DownloadThumbnail
SpecFetch == InitFetch /\ [][NextFetch]_vars

\* One run of the command-line script.
InitMain == InitFiles /\ inp \in MainInputs /\ pc = "call"
NextMain == Main
SpecMain == InitMain /\ [][NextMain]_vars

\* ------------------------------- the tag writers, statement by statement

\* set_cover and set_m4a_metadata are plain sequences of statements: another
\* process working in the same directory can run between any two of them, and
\* the process can be stopped after any of them.

Invs == {1, 2}

\* The variables of the calls that run as a whole.
calls == <<path, disk, last, before, inp, pc>>

\* The position and the locals of one invocation.
NoInv ==
    [op      |-> "",              \* "set_cover" or "set_m4a_metadata"
     file    |-> "",              \* file_path
     meta    |-> JNone,           \* file_metadata (set_m4a_metadata)
     cover   |-> "",              \* cover, the thumbnail URL
     pc      |-> "ready",         \* the next statement; "done"; "failed"
     exc     |-> "",              \* the exception that ended it
     tags    |-> Untagged("mp4"), \* tags = MP4(file_path) of set_m4a_metadata
     cov     |-> Untagged("mp4"), \* MP3file / MP4file of set_cover
     content |-> Absent,          \* r.content
     data    |-> Absent,          \* albumart.read()
     start   |-> Untagged("mp4"), \* the media file when the call began
     saved   |-> Absent]          \* the picture bytes set_cover's save stored

\* The invocation moves to statement next with its locals changed to r.
Goto(i, r, next) == inv' = [inv EXCEPT ![i] = [r EXCEPT !.pc = next]]

\* The statement raises: the exception leaves the function (nothing catches it).
Fail(i, exc) == inv' = [inv EXCEPT ![i].pc = "failed", ![i].exc = exc]

\* Bytes that are neither response whole: one body followed by the tail of a
\* longer one written through another handle.
Mixed == "mixed"

\* open(cover_path, 'ab'): the file keeps what it holds.
OpenAb(sc) == IF sc = Absent THEN "" ELSE sc

\* open(cover_path, 'wb'): the file is created or cut to length zero.
OpenWb(sc) == ""

\* q.write(r.content) and the close: the bytes go to offset 0 of the file as it
\* is now; what another handle wrote in the meantime keeps its tail if longer.
WriteOutcomes(sc, content) ==
    IF sc = "" \/ sc = content THEN {content} ELSE {content, Mixed}

\* The statements of set_cover.
CoverSteps == {"get", "open_scratch", "write", "open_media", "read", "save_cover"}

\* Invocation i enters set_cover: it overlaps every set_cover still running.
EnterCover(i) ==
    overlap' = (overlap \/ \E j \in Invs \ {i} : inv[j].pc \in CoverSteps)

\* The function is entered.
Call ==
    \E i \in Invs :
      /\ inv[i].pc = "ready"
      /\ Goto(i, [inv[i] EXCEPT !.start = files[inv[i].file]],
              IF inv[i].op = "set_cover" THEN "get" ELSE "open_tags")
      /\ IF inv[i].op = "set_cover" THEN EnterCover(i) ELSE UNCHANGED overlap
      /\ UNCHANGED <<files, scratch, calls>>

\* set_m4a_metadata: the five assignments, persisted as they are made.
AssignTagsAutosave ==
    \E i \in Invs :
      /\ inv[i].pc = "assign"
      /\ IF FirstError(inv[i].meta, M4aReads, 1) # ""
         THEN Fail(i, FirstError(inv[i].meta, M4aReads, 1)) /\ UNCHANGED <<files, overlap>>
         ELSE /\ Goto(i, [inv[i] EXCEPT !.tags = Mp4Assign(inv[i].tags, inv[i].meta),
                                        !.cover = Subscript(inv[i].meta, "thumbnail").v], "get")
              /\ files' = [files EXCEPT ![inv[i].file] = Mp4Assign(inv[i].tags, inv[i].meta)]
              /\ EnterCover(i)
      /\ UNCHANGED <<scratch, calls>>

\* set_m4a_metadata: tags = MP4(file_path)
OpenTags ==
    \E i \in Invs :
      /\ inv[i].pc = "open_tags"
      /\ IF Container(inv[i].file) # "mp4" THEN Fail(i, "MutagenError")
         ELSE Goto(i, [inv[i] EXCEPT !.tags = files[inv[i].file]], "assign")
      /\ UNCHANGED <<files, scratch, overlap, calls>>

\* set_m4a_metadata: the five assignments, then set_cover is called with
\* file_metadata["thumbnail"].
AssignTags ==
    \E i \in Invs :
      /\ inv[i].pc = "assign"
      /\ IF FirstError(inv[i].meta, M4aReads, 1) # ""
         THEN Fail(i, FirstError(inv[i].meta, M4aReads, 1)) /\ UNCHANGED overlap
         ELSE /\ Goto(i, [inv[i] EXCEPT !.tags = Mp4Assign(inv[i].tags, inv[i].meta),
                                        !.cover = Subscript(inv[i].meta, "thumbnail").v], "get")
              /\ EnterCover(i)
      /\ UNCHANGED <<files, scratch, calls>>

\* set_cover: r = requests.get(cover)
Get ==
    \E i \in Invs, resp \in Responses :
      /\ inv[i].pc = "get"
      /\ IF resp.http = "transport" THEN Fail(i, "ConnectionError")
         ELSE Goto(i, [inv[i] EXCEPT !.content = resp.body], "open_scratch")
      /\ UNCHANGED <<files, scratch, overlap, calls>>

\* set_cover: with open(cover_path, 'wb') as q
OpenScratch ==
    \E i \in Invs :
      /\ inv[i].pc = "open_scratch"
      /\ scratch' = OpenWb(scratch)
      /\ Goto(i, inv[i], "write")
      /\ UNCHANGED <<files, overlap, calls>>

\* set_cover: q.write(r.content), and the end of the with block
WriteScratch ==
    \E i \in Invs :
      /\ inv[i].pc = "write"
      /\ scratch' \in WriteOutcomes(scratch, inv[i].content)
      /\ Goto(i, inv[i], "open_media")
      /\ UNCHANGED <<files, overlap, calls>>

\* set_cover: MP3file = MP3(file_path, ID3=ID3) / MP4file = MP4(file_path)
OpenMedia ==
    \E i \in Invs :
      /\ inv[i].pc = "open_media"
      /\ IF Container(inv[i].file) # (IF EndsWithMp3(inv[i].file) THEN "id3" ELSE "mp4")
         THEN Fail(i, "MutagenError")
         ELSE Goto(i, [inv[i] EXCEPT !.cov = files[inv[i].file]], "read")
      /\ UNCHANGED <<files, scratch, overlap, calls>>

\* set_cover: the scratch file is read back and set as the picture in memory.
ReadScratch ==
    \E i \in Invs :
      /\ inv[i].pc = "read"
      /\ IF ~inv[i].cov.tagged
         THEN Fail(i, IF EndsWithMp3(inv[i].file) THEN "AttributeError" ELSE "TypeError")
         ELSE Goto(i, [inv[i] EXCEPT
                        !.data = scratch,
                        !.cov  = IF EndsWithMp3(inv[i].file)
                                 THEN [@ EXCEPT !.pics = AddFrame(@,
                                         Pic("Cover", IF EndsWithJpg(inv[i].cover) THEN "jpeg" ELSE "png",
                                             scratch))]
                                 ELSE [@ EXCEPT !.pics = <<Pic("covr", "jpeg", scratch)>>]],
                   "save_cover")
      /\ UNCHANGED <<files, scratch, overlap, calls>>

\* set_cover: MP3file.save(file_path) / MP4file.save(file_path), and the return
SaveCover ==
    \E i \in Invs :
      /\ inv[i].pc = "save_cover"
      /\ files' = [files EXCEPT ![inv[i].file] =
                      IF EndsWithMp3(inv[i].file) THEN inv[i].cov ELSE Mp4Save(@, inv[i].cov)]
      /\ Goto(i, [inv[i] EXCEPT !.saved = inv[i].data],
              IF inv[i].op = "set_cover" THEN "done" ELSE "save_tags")
      /\ UNCHANGED <<scratch, overlap, calls>>

\* set_m4a_metadata: tags.save(file_path), and the return
SaveTags ==
    \E i \in Invs :
      /\ inv[i].pc = "save_tags"
      /\ files' = [files EXCEPT ![inv[i].file] = Mp4Save(@, inv[i].tags)]
      /\ Goto(i, inv[i], "done")
      /\ UNCHANGED <<scratch, overlap, calls>>

\* The media file of the first invocation; the second works on TRACK.M4A.
FirstFiles == {"track.m4a", "track.mp3", "track.opus"}

\* The arguments of an invocation that tags video v: the function and its inputs.
Invocations(f, v, metas) ==
    {[NoInv EXCEPT !.op = "set_cover", !.file = f, !.cover = Val("thumbnail", v)]}
    \cup {[NoInv EXCEPT !.op = "set_m4a_metadata", !.file = f, !.meta = m] : m \in metas}

\* Two processes in one working directory, each tagging its own media file.
InitSteps ==
    /\ path = "track.m4a"
    /\ disk = Untagged("mp4")
    /\ scratch = Absent
    /\ last = NoCall
    /\ before = disk
    /\ inp = NoInput
    /\ pc = "idle"
    /\ overlap = FALSE
    /\ \E f \in FirstFiles :
          /\ \E d1 \in InitDisks(f), d2 \in InitDisks("TRACK.M4A") :
                files = (f :> d1) @@ ("TRACK.M4A" :> d2)
          /\ \E a1 \in Invocations(f, 1, MetaArgs),
                a2 \in Invocations("TRACK.M4A", 2, {JDict(FullMeta(2))}) :
                inv = <<a1, a2>>
NextSteps ==
    \/ Call \/ OpenTags \/ AssignTags \/ Get \/ OpenScratch \/ WriteScratch
    \/ OpenMedia \/ ReadScratch \/ SaveCover \/ SaveTags
SpecSteps == InitSteps /\ [][NextSteps]_vars

\* ------------------------------------------------------------------ claims

\* The tag key that holds semantic field f in container c.
TagKey(c, f) ==
    CASE c = "mp4" -> (CASE f = "title" -> "xa9nam" [] f = "channel" -> "xa9ART"
                         [] f = "upload_date" -> "xa9day" [] f = "webpage_url" -> "xa9cmt"
                         [] f = "description" -> "desc")
      [] c = "ogg" -> (CASE f = "title" -> "TITLE" [] f = "channel" -> "ARTIST"
                         [] f = "upload_date" -> "DATE" [] f = "webpage_url" -> "COMMENT"
                         [] f = "description" -> "DESCRIPTION")
      [] c = "id3" -> (CASE f = "title" -> "TIT2" [] f = "channel" -> "TPE1"
                         [] f = "upload_date" -> "TDRC" [] f = "webpage_url" -> "COMM"
                         [] f = "description" -> "TALB")

TextFields == Fields \ {"thumbnail"}

HasAll(meta) == meta.t = "dict" /\ Fields \subseteq DOMAIN meta.d

\* The last call was op and returned.
ReturnedFrom(op) == last.op = op /\ last.out.kind = "return"

\* C1: after set_m4a_metadata returns for a record with all six fields, the
\* file holds exactly one embedded picture and its bytes are those fetched
\* from the thumbnail URL during the call.
C1_SinglePictureIsThumbnail ==
    (ReturnedFrom("set_m4a_metadata") /\ HasAll(last.meta))
        => /\ Len(disk.pics) = 1
           /\ disk.pics[1].data = last.body

\* C2: after set_m4a_metadata or set_opus_metadata returns, the Title, Artist,
\* Date, Comment and Description tags on disk equal title, channel, the whole
\* upload_date, webpage_url and description of the record, and every other
\* text tag is as it was before the call.
C2_TextTagsVerbatim ==
    (ReturnedFrom("set_m4a_metadata") \/ ReturnedFrom("set_opus_metadata"))
        => LET c == Container(path)
           IN /\ \A f \in TextFields : disk.text[TagKey(c, f)] = last.meta.d[f]
              /\ \A k \in Keys(c) \ {TagKey(c, f) : f \in TextFields} :
                    disk.text[k] = before.text[k]

C2_Witness ==
    /\ ReturnedFrom("set_m4a_metadata")
    /\ last.meta = JDict(FullMeta(2))
    /\ before.text["xa9day"] = "old"
    /\ disk.text["xa9day"] = "20240229"

\* C3: when set_m4a_metadata returns twice in a row with the same metadata
\* and the same thumbnail bytes, the tags on disk after the second call (text
\* fields and pictures) are those after the first, and the pictures did not grow.
C3_Idempotent ==
    (last.op = "set_m4a_metadata" /\ last.rep >= 2)
        => /\ disk = before
           /\ Len(disk.pics) <= Len(before.pics)

C3_Witness ==
    /\ last.op = "set_m4a_metadata" /\ last.rep = 2
    /\ last.meta = JDict(FullMeta(1)) /\ last.body = "B1"
    /\ disk.text["xa9nam"] = "Song A"
    /\ Len(disk.pics) = 2

\* One call of a downloader function has run with a non-zero exit code.
FailedRun == pc = "done" /\ inp.rc # 0

\* C4: on a non-zero exit code, fetch_metadata, download_audio_with_metadata
\* and download_thumbnail raise an error whose message carries the URL and
\* the exit code, after one downloader run, with no parse and no value.
C4_NonZeroExitRaises ==
    FailedRun
        => /\ last.out = Raised("Exception", inp.url, inp.rc)
           /\ last.runs = 1
           /\ last.loads = 0
           /\ last.value = JNone

C4_Witness ==
    /\ FailedRun
    /\ inp.op = "fetch_metadata" /\ inp.stdout = Line(1) /\ inp.rc = 2
    /\ last.out.code = 2 /\ last.out.url = inp.url

\* The objects a stream may hold, and the streams of n of them, one per line.
StreamObjects == FullMetas \cup {EmptyDict}

RECURSIVE StreamFrom(_, _)
StreamFrom(ms, i) ==
    IF i > Len(ms) THEN <<>> ELSE Dump(ms[i]) \o <<NL>> \o StreamFrom(ms, i + 1)

RECURSIVE ObjectSeqs(_)
ObjectSeqs(n) ==
    IF n = 0 THEN {<<>>}
    ELSE {Append(ms, m) : ms \in ObjectSeqs(n - 1), m \in StreamObjects}

\* Every stream of 2..MaxChunks objects: the objects and the bytes printed.
Streams ==
    {[objs |-> ms, bytes |-> StreamFrom(ms, 1)]
        : ms \in UNION {ObjectSeqs(n) : n \in 2..MaxChunks}}

\* fetch_metadata has run on output the downloader wrote before exiting 0.
Fetched == pc = "done" /\ inp.op = "fetch_metadata" /\ inp.rc = 0

\* C5: for a stream of n >= 2 objects, one per line, fetch_metadata returns
\* the list of the n records in emission order; for one object (with or
\* without its newline) it returns that record from the first json.loads.
C5_StreamGivesRecordsInOrder ==
    Fetched
        => /\ \A st \in Streams :
                inp.stdout = st.bytes
                    => /\ last.out.kind = "return"
                       /\ last.value = JList([i \in 1..Len(st.objs) |-> JDict(st.objs[i])])
           /\ \A m \in StreamObjects :
                inp.stdout \in {Dump(m), Dump(m) \o <<NL>>}
                    => /\ last.out.kind = "return"
                       /\ last.loads = 1
                       /\ last.value = JDict(m)

C5_Witness ==
    /\ Fetched
    /\ inp.stdout = Line(2) \o Line(1) \o Line(2)
    /\ last.loads = 2
    /\ last.value = JList(<<JDict(FullMeta(2)), JDict(FullMeta(1)), JDict(FullMeta(2))>>)

\* C6: when the output is neither one JSON document nor repaired into an
\* array (no output, a cut object, objects not separated by one newline),
\* fetch_metadata raises a parse failure that names the URL and returns nothing.
C6_UnparseableRaisesWithUrl ==
    (Fetched /\ loads(inp.stdout).exc # ""
             /\ (loads(Repair(inp.stdout)).exc # "" \/ inp.stdout = <<>>))
        => /\ last.out.kind = "raise"
           /\ last.out.url = inp.url
           /\ last.value = JNone

\* The script has run its tag-an-existing-file branch (--set-m4a-metadata PATH).
TaggedExisting ==
    /\ pc = "done" /\ inp.op = "main"
    /\ inp.set_m4a_metadata /\ ~inp.metadata_only /\ ~inp.download_thumbnail

UnknownExtension == SuffixLower(path) \notin {".m4a", ".mp3", ".opus"}

\* Nothing touched the media file or the scratch file during the last call.
Untouched ==
    /\ last.opens = 0 /\ last.gets = 0 /\ last.writes = 0 /\ last.saves = 0
    /\ disk = before
    /\ scratch = Absent

\* C7 as stated: for every PATH with an extension outside .m4a, .mp3, .opus
\* the operation reports the format as unsupported and touches nothing.
C7_UnknownExtensionReported ==
    (TaggedExisting /\ UnknownExtension)
        => /\ last.out.kind = "return"
           /\ last.printed = SuffixLower(path)
           /\ Untouched

\* C7 amended: for such a PATH nothing is touched; the format is reported as
\* unsupported when the metadata fetch that precedes the dispatch returns, and
\* when it raises the operation ends with that error and reports no format.
C7_UnknownExtensionUntouched ==
    (TaggedExisting /\ UnknownExtension)
        => /\ Untouched
           /\ last.runs = 1
           /\ last.out.kind = "return" => last.printed = SuffixLower(path)
           /\ last.out.kind = "raise"
                => /\ last.printed = ""
                   /\ last.out = fetch_metadata(inp.url, inp.rc, inp.stdout).out

C7_Witness ==
    /\ TaggedExisting /\ path = "track.flac"
    /\ inp.rc = 0 /\ inp.stdout = Line(1)
    /\ last.printed = ".flac"
    /\ last.value = JDict(FullMeta(1))
    /\ disk.pics # <<>>

\* C8: for an existing .mp3 file and a record with all six fields, tagging
\* selects the ID3 writer: the five text tags equal the record's fields and
\* an embedded picture holds the fetched thumbnail bytes.
C8_Mp3TaggedById3 ==
    (/\ TaggedExisting /\ SuffixLower(path) = ".mp3" /\ before.tagged
     /\ inp.rc = 0 /\ inp.resp.http = "2xx"
     /\ \E v \in Variants : inp.stdout = Line(v))
        => /\ last.out.kind = "return"
           /\ \A f \in TextFields : disk.text[TagKey("id3", f)] = last.value.d[f]
           /\ \E i \in 1..Len(disk.pics) : disk.pics[i].data = inp.resp.body

\* The last call asked for the thumbnail and the GET failed.
GetFailed ==
    /\ last.op \in {"set_cover", "set_m4a_metadata"}
    /\ last.gets >= 1
    /\ last.http \in {"404", "transport"}

\* C9: when the GET of the thumbnail answers non-2xx or fails in transport,
\* set_cover and set_m4a_metadata raise, the body is not embedded, the media
\* file is as before, and the GET was made once.
C9_FailedGetLeavesFile ==
    GetFailed
        => /\ last.out.kind = "raise"
           /\ last.gets = 1
           /\ disk = before
           /\ \A i \in 1..Len(disk.pics) : disk.pics[i].data # "E404"

\* The last call was a tag writer given a record that lacks field f.
Lacks(op, f) == last.op = op /\ last.meta.t = "dict" /\ f \notin DOMAIN last.meta.d

\* C10 as stated: each writer fails, and leaves the file alone, when any of
\* the six fields is absent.
C10_AnyAbsentFieldFails ==
    \A op \in {"set_m4a_metadata", "set_opus_metadata"} : \A f \in Fields :
        Lacks(op, f) => last.out.kind = "raise" /\ disk = before

\* C10 amended: set_m4a_metadata fails on the absence of any of the six fields,
\* set_opus_metadata on the absence of any of the five text fields (it never
\* reads thumbnail, and writes the five tags of a record that lacks only it);
\* the failure is the subscript's KeyError on a file of the writer's own kind,
\* nothing is defaulted and the file and the scratch file stay as they were.
C10_AbsentReadFieldFails ==
    /\ \A f \in Fields :
          Lacks("set_m4a_metadata", f)
              => /\ last.out.kind = "raise"
                 /\ Container(path) = "mp4" => last.out.exc = "KeyError"
                 /\ disk = before
                 /\ last.writes = 0
                 /\ last.saves = 0 /\ last.gets = 0
    /\ \A f \in TextFields :
          Lacks("set_opus_metadata", f)
              => /\ last.out.kind = "raise"
                 /\ Container(path) = "ogg" => last.out.exc = "KeyError"
                 /\ disk = before
                 /\ last.saves = 0
    /\ (Lacks("set_opus_metadata", "thumbnail") /\ Container(path) = "ogg")
          => /\ last.out.kind = "return"
             /\ \A f \in TextFields : disk.text[TagKey("ogg", f)] = last.meta.d[f]

C10_Witness ==
    /\ Lacks("set_opus_metadata", "upload_date")
    /\ path = "track.opus"
    /\ last.out.exc = "KeyError"
    /\ before.text["TITLE"] = "Song B"
    /\ disk = before

\* The statements of set_m4a_metadata up to and including set_cover's save:
\* an invocation at one of them has not yet run that save.
BeforeCoverSave ==
    {"open_tags", "assign", "get", "open_scratch", "write", "open_media", "read", "save_cover"}

\* C11 (as stated): while set_m4a_metadata has been called and its final
\* tags.save has not run, whether it is still running, was stopped there or
\* has raised, the media file on disk is what it was when the call began.
C11_UntouchedBeforeTagsSave ==
    \A i \in DOMAIN inv :
        (inv[i].op = "set_m4a_metadata" /\ inv[i].pc \notin {"ready", "done"})
            => files[inv[i].file] = inv[i].start

\* C11 (amended): the media file is first modified by set_cover's own save.
\* Until that save has run, and after any exception, the file is what it was
\* when the call began; between that save and the final tags.save the file
\* holds the bytes read from the scratch file as its only picture, and its
\* text tags are still those it had when the call began.
C11_UntouchedBeforeCoverSave ==
    \A i \in DOMAIN inv :
        inv[i].op = "set_m4a_metadata" =>
            /\ inv[i].pc \in BeforeCoverSave \cup {"failed"}
                  => files[inv[i].file] = inv[i].start
            /\ inv[i].pc = "save_tags"
                  => files[inv[i].file] =
                        [inv[i].start EXCEPT !.pics = <<Pic("covr", "jpeg", inv[i].data)>>]

\* A set_m4a_metadata invocation stands before its final tags.save with the
\* file already changed on disk, and with text tags in memory still to store.
C11_Witness ==
    \E i \in DOMAIN inv :
        /\ inv[i].op = "set_m4a_metadata"
        /\ inv[i].pc = "save_tags"
        /\ files[inv[i].file] # inv[i].start
        /\ inv[i].tags.text # files[inv[i].file].text

\* The media file of invocation i holds a picture with bytes b.
HoldsPicture(i, b) ==
    \E k \in DOMAIN files[inv[i].file].pics : files[inv[i].file].pics[k].data = b

\* Invocation i's set_cover has saved and nothing has written the file since.
CoverJustSaved(i) ==
    \/ inv[i].op = "set_cover" /\ inv[i].pc = "done"
    \/ inv[i].op = "set_m4a_metadata" /\ inv[i].pc = "save_tags"

\* C12: cover.jpg is one path shared by all invocations and nothing locks it.
\* A set_cover invocation whose run overlapped no other set_cover run has saved
\* its media file with exactly the bytes its own GET returned. A file saved
\* with other bytes comes from overlapping invocations only, and those bytes
\* are what the other invocation fetched (as the witness shows), the empty
\* file the other had just opened for writing, or a mix of both bodies.
C12_OwnBytesUnlessOverlap ==
    \A i \in DOMAIN inv :
        inv[i].saved # Absent =>
            /\ ~overlap =>
                  /\ inv[i].saved = inv[i].content
                  /\ CoverJustSaved(i) => HoldsPicture(i, inv[i].content)
            /\ inv[i].saved # inv[i].content =>
                  /\ overlap
                  /\ inv[i].saved \in {inv[j].content : j \in DOMAIN inv \ {i}} \cup {"", Mixed}

\* Two set_cover invocations for different media files and different URLs
\* have overlapped, and one has saved its file with the bytes the other fetched.
C12_Witness ==
    \E i, j \in DOMAIN inv :
        /\ inv[i].file # inv[j].file
        /\ inv[i].cover # inv[j].cover
        /\ inv[i].op = "set_cover" /\ inv[j].op = "set_cover"
        /\ overlap
        /\ inv[i].pc = "done"
        /\ inv[i].saved = inv[j].content
        /\ inv[i].saved # inv[i].content
        /\ HoldsPicture(i, inv[j].content)
        /\ ~HoldsPicture(i, inv[i].content)
====
